---- MODULE Spec2Model ----
(***************************************************************************)
(* Repo Guardian (remind-reviewers.js): one run of the script as a state   *)
(* machine (Spec; SpecFair adds that a step that can be taken is taken),   *)
(* and two runs in a row over the same remote data (SpecPair).  The script *)
(* is a single sequential async program; every action below is the code    *)
(* between two suspension points (one awaited remote call with its         *)
(* response, and the synchronous code that follows).                       *)
(*                                                                         *)
(* Time is counted in whole hours (36e5 ms); a day is 24 of them.          *)
(***************************************************************************)
EXTENDS Integers, Sequences, FiniteSets

(* ------------------------------ bounds -------------------------------- *)

\* The clock reading at process start (hours since the epoch of the model).
Now0 == 400
\* Date.now() may advance by at most this many hours during the modelled runs.
MaxTicks == 1
\* At most this many remote calls fail (throw) in the modelled runs.
MaxFailures == 1

(* ------------------------- program constants -------------------------- *)

\* parseFloat(process.env.REVIEW_HOURS || '12')
REVIEW_HOURS == 12
\* parseInt(process.env.MAX_CLOSED_LOOKBACK_DAYS || '14', 10)
MAX_CLOSED_LOOKBACK_DAYS == 14
\* 864e5 ms, in hours
HoursPerDay == 24

MaxNow == Now0 + MaxTicks
Lookback == MAX_CLOSED_LOOKBACK_DAYS * HoursPerDay

(* --------------------- the remote platform's data --------------------- *)

NoUser == ""

\* Repositories the owner listing returns, page by page (owner "acme").
RepoItem(n, f, a) == [owner |-> "acme", name |-> n, fork |-> f, archived |-> a]
RepoPages ==
  << << RepoItem("r1", FALSE, FALSE), RepoItem("r2", TRUE, FALSE) >>,
     << RepoItem("r3", FALSE, TRUE) >> >>

Pull(n, c, u, m, h, a, rr) ==
  [number |-> n, created_at |-> c, updated_at |-> u, merged_at |-> m,
   head |-> h, user |-> a, requested_reviewers |-> rr]

\* Open pull requests of acme/r1, page by page.  #1 is exactly REVIEW_HOURS old
\* at process start, #3 is older; #2 has no requested reviewers.
OpenPagesR1 ==
  << << Pull(1, Now0 - REVIEW_HOURS, Now0 - 1, FALSE, "feat-a", "dave", <<"alice", "bob">>),
        Pull(2, Now0 - 50, Now0 - 2, FALSE, "feat-b", "dave", << >>) >>,
     << Pull(3, Now0 - REVIEW_HOURS - 1, Now0 - 3, FALSE, "feat-c", "erin", <<"carol">>) >> >>

\* Reviews of a pull request: the logins of the review authors (NoUser: a
\* review whose user is null).
IsR1(repo) == repo.owner = "acme" /\ repo.name = "r1"
ReviewsOf(repo, number) ==
  IF IsR1(repo) /\ number = 1 THEN {"bob"}
  ELSE IF IsR1(repo) /\ number = 3 THEN {NoUser}
  ELSE {}

Recent == Now0 - HoursPerDay
Edge == Now0 - Lookback
Old == Now0 - 30 * HoursPerDay

\* Closed pull requests of acme/r1, as the remote pages them: one layout is
\* sorted by updated_at descending, the other is not (the remote is free to
\* answer either way).
ClosedSorted ==
  << << Pull(10, Old - 9, Recent, TRUE, "feature-x", "dave", << >>),
        Pull(11, Old - 8, Recent - 1, FALSE, "wip", "erin", << >>),
        Pull(12, Old - 7, Edge, TRUE, "fix-y", "erin", << >>) >>,
     << Pull(13, Old - 6, Old, TRUE, "old-z", "dave", << >>) >> >>
ClosedUnsorted ==
  << << Pull(20, Old - 9, Old, TRUE, "old-z", "dave", << >>) >>,
     << Pull(21, Old - 8, Recent, TRUE, "feature-x", "erin", << >>) >> >>
\* A second sorted layout, with pull requests inside the window on more than
\* one page.
ClosedSortedDeep ==
  << << Pull(30, Old - 5, Recent, TRUE, "feature-x", "dave", << >>) >>,
     << Pull(31, Old - 4, Recent - 2, TRUE, "gone", "erin", << >>) >>,
     << Pull(32, Old - 3, Old, TRUE, "old-z", "dave", << >>) >> >>
ClosedLayouts == {ClosedSorted, ClosedUnsorted, ClosedSortedDeep}

\* Branches that still exist in a repository.
Branches(repo) == IF IsR1(repo) THEN {"feature-x", "old-z", "wip"} ELSE {}

PageOf(pages, p) == IF p \in 1..Len(pages) THEN pages[p] ELSE << >>

(* -------------------------- configuration ----------------------------- *)

\* REPOS after split(',') / trim / filter(Boolean); each entry is kept as the
\* result of entry.split('/').
ReposRawChoices ==
  { << >>,
    << <<"acme", "r1">> >>,
    << <<"r1">>, <<"acme", "r2">> >>,
    << <<"acme", "r1">>, <<"a", "b", "c">> >> }

VARIABLES
  GITHUB_TOKEN, OWNER, REPOS_RAW, DRY_RUN, INCLUDE_FORKS, INCLUDE_ARCHIVED,
  ownerIsOrg, closedPulls, comments,
  pc, repos, page, isOrg, ri, prs, pi, reviews, rvi, since, anyWithinWindow,
  now, log, fatal, calls, failures, reads, passes, run, prev

config == << GITHUB_TOKEN, OWNER, REPOS_RAW, DRY_RUN, INCLUDE_FORKS, INCLUDE_ARCHIVED >>
remote == << ownerIsOrg, closedPulls >>
vars == << config, remote, comments, pc, repos, page, isOrg, ri, prs, pi, reviews,
           rvi, since, anyWithinWindow, now, log, fatal, calls, failures, reads,
           passes, run, prev >>


(* ------------------------ console and call records -------------------- *)

NoRepo == [owner |-> "", name |-> ""]
NoBody == [tmpl |-> "none", login |-> "", hours |-> 0, branch |-> ""]

\* One console.log line (line 45; the timestamp prefix is left out).
Line(kind, repo, n, body, st) ==
  [kind |-> kind, repo |-> repo, pr |-> n, body |-> body, status |-> st]

\* One remote call with the status it came back with (200: it returned).
Call(op, repo, n, ref, st) ==
  [op |-> op, repo |-> repo, n |-> n, ref |-> ref, status |-> st]

\* The statuses a failing (throwing) remote call may carry, while the failure
\* budget lasts.
Failing(statuses) == IF failures < MaxFailures THEN statuses ELSE {}
Failed(st) == st # 200

NoFatal == [kind |-> "none", msg |-> "", status |-> 0]

(* ----------------------------- pure helpers --------------------------- *)

RECURSIVE ParseFrom(_, _, _, _)

\* Mutant of ParseFrom: a bare name is taken with whatever OWNER holds, the
\* check of line 54 is missing.
ParseFromNoOwnerCheck(raw, owner, i, parsed) ==
  IF i > Len(raw) THEN [ok |-> TRUE, repos |-> parsed, msg |-> ""]
  ELSE LET parts == raw[i] IN
    IF Len(parts) = 1 THEN
      ParseFrom(raw, owner, i + 1, Append(parsed, [owner |-> owner, name |-> parts[1]]))
    ELSE IF Len(parts) = 2 THEN
      ParseFrom(raw, owner, i + 1, Append(parsed, [owner |-> parts[1], name |-> parts[2]]))
    ELSE [ok |-> FALSE, repos |-> << >>, msg |-> "invalid repo spec"]

\* Lines 47-65: the loop of parseExplicitRepos from entry i on.
ParseFrom(raw, owner, i, parsed) ==
  IF i > Len(raw) THEN [ok |-> TRUE, repos |-> parsed, msg |-> ""]
  ELSE LET parts == raw[i] IN
    IF Len(parts) = 1 THEN
      IF owner = "" THEN [ok |-> FALSE, repos |-> << >>, msg |-> "missing owner"]
      ELSE ParseFrom(raw, owner, i + 1, Append(parsed, [owner |-> owner, name |-> parts[1]]))
    ELSE IF Len(parts) = 2 THEN
      ParseFrom(raw, owner, i + 1, Append(parsed, [owner |-> parts[1], name |-> parts[2]]))
    ELSE [ok |-> FALSE, repos |-> << >>, msg |-> "invalid repo spec"]

parseExplicitRepos == ParseFrom(REPOS_RAW, OWNER, 1, << >>)

\* Mutant of KeepRepo: || for &&.
KeepRepoEither(r) == (INCLUDE_ARCHIVED \/ ~r.archived) \/ (INCLUDE_FORKS \/ ~r.fork)

\* The filter of line 95.
KeepRepo(r) == (INCLUDE_ARCHIVED \/ ~r.archived) /\ (INCLUDE_FORKS \/ ~r.fork)

\* Lines 93-97: filter, then map to {owner, name}, in page order.
Discovered(data) ==
  LET kept == SelectSeq(data, KeepRepo)
  IN [i \in 1..Len(kept) |-> [owner |-> kept[i].owner, name |-> kept[i].name]]

\* Mutant of HasReviewBy: compares the user object, not its login.
HasReviewByUserObject(rs, login) == FALSE

\* Line 119: reviews.find(r => r.user && r.user.login === reviewer.login)
HasReviewBy(rs, login) == \E u \in rs : u # NoUser /\ u = login

\* Line 121: (Date.now() - new Date(pr.created_at)) / 36e5
HoursSince(t, created) == t - created

\* Mutant of ShouldRemind: >= for >.
ShouldRemindAtThreshold(reviewByUser, hours) == ~reviewByUser /\ hours >= REVIEW_HOURS

\* Line 122
ShouldRemind(reviewByUser, hours) == ~reviewByUser /\ hours > REVIEW_HOURS

\* Line 123.  toFixed(1) of a whole number of hours h is "h.0": the rendered
\* text is determined by (login, h, REVIEW_HOURS).
ReviewerBody(login, hours) ==
  [tmpl |-> "review", login |-> login, hours |-> hours, branch |-> ""]

\* Line 153
BranchBody(author, branch) ==
  [tmpl |-> "branch", login |-> author, hours |-> 0, branch |-> branch]

\* Mutants of Posts: the dry-run flag is ignored.
PostsAlways == TRUE
PostsNever == FALSE

\* Lines 124 and 154: the live branch of if (DRY_RUN) ... else ...
Posts == ~DRY_RUN

\* Mutant of WithinWindow: <= for <.
WithinWindowStrict(updated, s) == ~(updated <= s)

\* Line 147: if (updated < since) continue
WithinWindow(updated, s) == ~(updated < s)

\* Line 149
IsMerged(pr) == pr.merged_at

\* Mutant of RefFound: the reminder is made whatever getRef answered.
RefFoundAlways(st) == TRUE

\* Lines 152-153: the try block goes on to the reminder when getRef returned.
RefFound(st) == st = 200

\* Mutants of StopEarly: the loop never, or always, stops after a page.
StopEarlyNever(any) == FALSE
StopEarlyAlways(any) == TRUE

\* Line 169: if (!anyWithinWindow) break
StopEarly(any) == ~any

\* Line 116: the next pull request of the page, from index i on, that has
\* requested reviewers (0: none left).
NextWithReviewers(ps, i) ==
  LET c == { j \in i..Len(ps) : ps[j].requested_reviewers # << >> }
  IN IF c = {} THEN 0 ELSE CHOOSE j \in c : \A k \in c : j <= k

\* Lines 145-149: the next pull request of the page, from index i on, that
\* reaches the getRef call (0: none left).
NextToCheck(ps, i, s) ==
  LET c == { j \in i..Len(ps) : WithinWindow(ps[j].updated_at, s) /\ IsMerged(ps[j]) }
  IN IF c = {} THEN 0 ELSE CHOOSE j \in c : \A k \in c : j <= k

\* Line 148, over the pull requests 1..k of the page.
AnyWithin(ps, k, s) == \E j \in 1..k : j <= Len(ps) /\ WithinWindow(ps[j].updated_at, s)

OpenPages(repo) == IF IsR1(repo) THEN OpenPagesR1 ELSE << >>
ClosedPages(repo) == IF IsR1(repo) THEN closedPulls ELSE << >>


(* ------------------------------- Init --------------------------------- *)

NoPrev == [dry |-> << >>, reads |-> << >>]

Init ==
  /\ GITHUB_TOKEN \in {"", "token"}
  /\ OWNER \in {"", "acme"}
  /\ REPOS_RAW \in ReposRawChoices
  /\ DRY_RUN \in BOOLEAN
  /\ INCLUDE_FORKS \in BOOLEAN
  /\ INCLUDE_ARCHIVED \in BOOLEAN
  \* the two flags are read by autoDiscoverRepos only (line 95)
  /\ (REPOS_RAW # << >> => ~INCLUDE_FORKS /\ ~INCLUDE_ARCHIVED)
  /\ ownerIsOrg \in BOOLEAN
  /\ (REPOS_RAW # << >> \/ OWNER = "" => ownerIsOrg)
  /\ closedPulls \in ClosedLayouts
  /\ comments = << >>
  /\ pc = "boot"
  /\ repos = << >>
  /\ page = 0
  /\ isOrg = TRUE
  /\ ri = 0
  /\ prs = << >>
  /\ pi = 0
  /\ reviews = {}
  /\ rvi = 0
  /\ since = 0
  /\ anyWithinWindow = FALSE
  /\ now = Now0
  /\ log = << >>
  /\ fatal = NoFatal
  /\ calls = << >>
  /\ failures = 0
  /\ reads = << >>
  /\ passes = << >>
  /\ run = 1
  /\ prev = NoPrev

(* --------------------------- control helpers -------------------------- *)

Ctl(pc_, page_, ri_, prs_, pi_, reviews_, rvi_, any_) ==
  /\ pc' = pc_
  /\ page' = page_
  /\ ri' = ri_
  /\ prs' = prs_
  /\ pi' = pi_
  /\ reviews' = reviews_
  /\ rvi' = rvi_
  /\ anyWithinWindow' = any_

\* Lines 177-185: the for loop of main reaches repository i of rs (and logs
\* line 110), or falls out of the loop (line 185).
ToRepo(rs, i) ==
  IF i > Len(rs) THEN Ctl("done", 0, i, << >>, 0, {}, 0, FALSE)
  ELSE Ctl("listOpen", 1, i, << >>, 0, {}, 0, FALSE)
LogToRepo(rs, i, lg) ==
  Append(lg, IF i > Len(rs) THEN Line("Completed run", NoRepo, 0, NoBody, 0)
             ELSE Line("Checking open PRs", rs[i], 0, NoBody, 0))

\* Line 188: main() rejected.
TopLevelFailure(kind, msg, st) ==
  /\ Ctl("failed", 0, 0, << >>, 0, {}, 0, FALSE)
  /\ fatal' = [kind |-> kind, msg |-> msg, status |-> st]

\* Mutant of CatchInMain: no try/catch around the two engines.
CatchInMainRethrow(st, lg) ==
  /\ TopLevelFailure("remote", "main", st)
  /\ log' = lg

\* Mutant of CatchInMain: the repository that failed is processed again.
CatchInMainRetry(st, lg) ==
  /\ fatal' = fatal
  /\ ToRepo(repos, ri)
  /\ log' = LogToRepo(repos, ri,
                      Append(lg, Line("Error processing repo", repos[ri], 0, NoBody, st)))

\* Mutant of CatchInMain: each engine has a try/catch of its own, so that
\* notifyUndeletedBranches runs after notifyInactiveReviewers has failed.
CatchInMainPerEngine(st, lg) ==
  /\ fatal' = fatal
  /\ IF pc \in {"listOpen", "listReviews", "reviewer"}
     THEN Ctl("listClosed", 1, ri, << >>, 0, {}, 0, FALSE)
     ELSE ToRepo(repos, ri + 1)
  /\ log' = LET lg2 == Append(lg, Line("Error processing repo", repos[ri], 0, NoBody, st))
            IN IF pc \in {"listOpen", "listReviews", "reviewer"} THEN lg2
               ELSE LogToRepo(repos, ri + 1, lg2)

\* Lines 181-183: the catch of main, then the next iteration of its loop.
CatchInMain(st, lg) ==
  /\ fatal' = fatal
  /\ ToRepo(repos, ri + 1)
  /\ log' = LogToRepo(repos, ri + 1,
                      Append(lg, Line("Error processing repo", repos[ri], 0, NoBody, st)))

(* ------------------------------ actions ------------------------------- *)

\* Lines 23-26
CheckToken ==
  /\ pc = "boot"
  /\ IF GITHUB_TOKEN = ""
     THEN TopLevelFailure("config", "Missing GITHUB_TOKEN", 0)
     ELSE Ctl("start", 0, 0, << >>, 0, {}, 0, FALSE) /\ fatal' = fatal
  /\ UNCHANGED << config, remote, comments, repos, isOrg, since, now, log, calls,
                  failures, reads, passes, run, prev >>

\* Lines 175-176 with listRepos (103-107), up to the first remote call.
ListRepos ==
  /\ pc = "start"
  /\ LET explicit == parseExplicitRepos IN
     IF ~explicit.ok THEN
       /\ TopLevelFailure("config", explicit.msg, 0)
       /\ UNCHANGED << repos, log >>
     ELSE IF Len(explicit.repos) > 0 THEN
       /\ repos' = explicit.repos
       /\ ToRepo(explicit.repos, 1)
       /\ log' = LogToRepo(explicit.repos, 1,
                           Append(log, Line("Target repositories", NoRepo, 0, NoBody, 0)))
       /\ fatal' = fatal
     ELSE IF OWNER = "" THEN
       /\ TopLevelFailure("config", "OWNER required", 0)
       /\ UNCHANGED << repos, log >>
     ELSE
       /\ Ctl("listForOrg", 1, 0, << >>, 0, {}, 0, FALSE)
       /\ log' = Append(log, Line("Auto-discovering", NoRepo, 0, NoBody, 0))
       /\ UNCHANGED << repos, fatal >>
  /\ isOrg' = TRUE
  /\ UNCHANGED << config, remote, comments, since, now, calls, failures, reads, passes, run, prev >>

\* Lines 92-98 (and 176 when the loop breaks): what autoDiscoverRepos does
\* with the page it settled on.
UsePage(data) ==
  IF Len(data) = 0 THEN
    /\ ToRepo(repos, 1)
    /\ log' = LogToRepo(repos, 1,
                        Append(log, Line("Target repositories", NoRepo, 0, NoBody, 0)))
    /\ repos' = repos
  ELSE
    /\ repos' = repos \o Discovered(data)
    /\ Ctl("listForOrg", page + 1, 0, << >>, 0, {}, 0, FALSE)
    /\ log' = log

\* Lines 77-87: octokit.repos.listForOrg and its catch.
ListForOrg ==
  /\ pc = "listForOrg"
  /\ \E st \in (IF ownerIsOrg THEN {200} ELSE {404}) \cup Failing({404, 500}) :
       /\ calls' = Append(calls, Call("listForOrg", NoRepo, page, "", st))
       /\ failures' = IF st = 200 \/ (st = 404 /\ ~ownerIsOrg) THEN failures ELSE failures + 1
       /\ IF st = 200 THEN
            IF isOrg THEN UsePage(PageOf(RepoPages, page)) /\ UNCHANGED << isOrg, fatal >>
            ELSE /\ Ctl("listForUser", page, 0, << >>, 0, {}, 0, FALSE)
                 /\ UNCHANGED << repos, log, isOrg, fatal >>
          ELSE IF st = 404 THEN
            /\ isOrg' = FALSE
            /\ Ctl("listForUser", page, 0, << >>, 0, {}, 0, FALSE)
            /\ UNCHANGED << repos, log, fatal >>
          ELSE
            /\ TopLevelFailure("remote", "listForOrg", st)
            /\ UNCHANGED << repos, log, isOrg >>
  /\ UNCHANGED << config, remote, comments, since, now, reads, passes, run, prev >>

\* Lines 87-91: octokit.repos.listForUser (not in a try).
ListForUser ==
  /\ pc = "listForUser"
  /\ \E st \in {200} \cup Failing({404, 500}) :
       /\ calls' = Append(calls, Call("listForUser", NoRepo, page, "", st))
       /\ failures' = IF Failed(st) THEN failures + 1 ELSE failures
       /\ IF st = 200 THEN UsePage(PageOf(RepoPages, page)) /\ fatal' = fatal
          ELSE TopLevelFailure("remote", "listForUser", st) /\ UNCHANGED << repos, log >>
  /\ UNCHANGED << config, remote, comments, isOrg, since, now, reads, passes, run, prev >>


(* ---------------------- notifyInactiveReviewers ----------------------- *)

\* Mutant of ScanOpenFrom: the page counter is advanced twice.
ScanOpenFromSkipPage(ps, i) ==
  LET j == NextWithReviewers(ps, i) IN
  IF j # 0 THEN Ctl("listReviews", page, ri, ps, j, {}, 0, FALSE)
  ELSE Ctl("listOpen", page + 2, ri, << >>, 0, {}, 0, FALSE)

\* Lines 115-116 and 133: go on with the pull requests of the page from index
\* i, up to the next listReviews call, or to the request of the next page.
ScanOpenFrom(ps, i) ==
  LET j == NextWithReviewers(ps, i) IN
  IF j # 0 THEN Ctl("listReviews", page, ri, ps, j, {}, 0, FALSE)
  ELSE Ctl("listOpen", page + 1, ri, << >>, 0, {}, 0, FALSE)

\* Lines 138-140: notifyUndeletedBranches starts; t is the reading of
\* Date.now() on line 139.
StartCleanup(t, lg) ==
  /\ Ctl("listClosed", 1, ri, << >>, 0, {}, 0, FALSE)
  /\ since' = t - Lookback
  /\ now' = t
  /\ reads' = Append(reads, t)
  /\ passes' = Append(passes, [repo |-> repos[ri], since |-> t - Lookback])
  /\ log' = Append(lg, Line("Checking merged PRs", repos[ri], 0, NoBody, 0))

\* Lines 113-116: octokit.pulls.list, state open.
ListOpenPulls ==
  /\ pc = "listOpen"
  /\ \E st \in {200} \cup Failing({404, 500}) :
       /\ calls' = Append(calls, Call("listOpen", repos[ri], page, "", st))
       /\ failures' = IF Failed(st) THEN failures + 1 ELSE failures
       /\ IF Failed(st) THEN
            CatchInMain(st, log) /\ UNCHANGED << since, now, reads, passes >>
          ELSE LET data == PageOf(OpenPages(repos[ri]), page) IN
            /\ fatal' = fatal
            /\ IF Len(data) = 0
               THEN \E t \in now..MaxNow : StartCleanup(t, log)
               ELSE ScanOpenFrom(data, 1) /\ UNCHANGED << since, now, reads, passes, log >>
  /\ UNCHANGED << config, remote, comments, repos, isOrg, run, prev >>

\* Line 117: octokit.pulls.listReviews.
ListReviews ==
  /\ pc = "listReviews"
  /\ \E st \in {200} \cup Failing({404, 500}) :
       /\ calls' = Append(calls, Call("listReviews", repos[ri], prs[pi].number, "", st))
       /\ failures' = IF Failed(st) THEN failures + 1 ELSE failures
       /\ IF Failed(st) THEN CatchInMain(st, log)
          ELSE /\ Ctl("reviewer", page, ri, prs, pi, ReviewsOf(repos[ri], prs[pi].number), 1, FALSE)
               /\ UNCHANGED << log, fatal >>
  /\ UNCHANGED << config, remote, comments, repos, isOrg, since, now, reads, passes, run, prev >>

\* Lines 118 and 131: the next requested reviewer, or the next pull request.
NextReviewer ==
  IF rvi < Len(prs[pi].requested_reviewers)
  THEN Ctl("reviewer", page, ri, prs, pi, reviews, rvi + 1, FALSE)
  ELSE ScanOpenFrom(prs, pi + 1)

\* Lines 118-131: one iteration of the loop over requested_reviewers; t is
\* the reading of Date.now() on line 121.
RemindReviewer ==
  /\ pc = "reviewer"
  /\ \E t \in now..MaxNow :
       LET pr == prs[pi]
           reviewer == pr.requested_reviewers[rvi]
           reviewByUser == HasReviewBy(reviews, reviewer)
           hoursSinceRequested == HoursSince(t, pr.created_at)
           body == ReviewerBody(reviewer, hoursSinceRequested)
       IN
       /\ now' = t
       /\ reads' = Append(reads, t)
       /\ IF ~ShouldRemind(reviewByUser, hoursSinceRequested) THEN
            NextReviewer /\ UNCHANGED << log, calls, comments, failures, fatal >>
          ELSE IF ~Posts THEN
            /\ log' = Append(log, Line("DRY_RUN", repos[ri], pr.number, body, 0))
            /\ NextReviewer
            /\ UNCHANGED << calls, comments, failures, fatal >>
          ELSE \E st \in {200} \cup Failing({404, 500}) :
            /\ calls' = Append(calls, Call("createComment", repos[ri], pr.number, "", st))
            /\ failures' = IF Failed(st) THEN failures + 1 ELSE failures
            /\ IF Failed(st) THEN CatchInMain(st, log) /\ comments' = comments
               ELSE /\ comments' = Append(comments, [repo |-> repos[ri], pr |-> pr.number, body |-> body])
                    /\ log' = Append(log, Line("Commented reminder", repos[ri], pr.number, body, 0))
                    /\ NextReviewer
                    /\ fatal' = fatal
  /\ UNCHANGED << config, remote, repos, isOrg, since, passes, run, prev >>

(* ---------------------- notifyUndeletedBranches ----------------------- *)

\* Lines 145-149 and 169-170: go on with the pull requests of the page from
\* index i, up to the next getRef call, or to the end of the page and what
\* follows it (the next page, or the end of the function and the next
\* iteration of main's loop).
ScanClosedFrom(ps, i, lg) ==
  LET j == NextToCheck(ps, i, since) IN
  IF j # 0 THEN
    Ctl("getRef", page, ri, ps, j, {}, 0, TRUE) /\ log' = lg
  ELSE IF StopEarly(anyWithinWindow \/ AnyWithin(ps, Len(ps), since)) THEN
    ToRepo(repos, ri + 1) /\ log' = LogToRepo(repos, ri + 1, lg)
  ELSE
    Ctl("listClosed", page + 1, ri, << >>, 0, {}, 0, FALSE) /\ log' = lg

\* Lines 142-144: octokit.pulls.list, state closed.
ListClosedPulls ==
  /\ pc = "listClosed"
  /\ \E st \in {200} \cup Failing({404, 500}) :
       /\ calls' = Append(calls, Call("listClosed", repos[ri], page, "", st))
       /\ failures' = IF Failed(st) THEN failures + 1 ELSE failures
       /\ IF Failed(st) THEN CatchInMain(st, log)
          ELSE LET data == PageOf(ClosedPages(repos[ri]), page) IN
            /\ fatal' = fatal
            /\ IF Len(data) = 0
               THEN ToRepo(repos, ri + 1) /\ log' = LogToRepo(repos, ri + 1, log)
               ELSE ScanClosedFrom(data, 1, log)
  /\ UNCHANGED << config, remote, comments, repos, isOrg, since, now, reads, passes, run, prev >>

\* Mutant of CatchRef: the catch swallows every error.
CatchRefSilent(st, branchName) == log

\* Lines 160-166: the catch around getRef and createComment.
CatchRef(st, branchName) ==
  IF st = 404 THEN log
  ELSE Append(log, Line("Error checking ref", NoRepo, 0, BranchBody("", branchName), st))

\* Lines 150-167: getRef for one pull request, and the reminder.
CheckBranch ==
  /\ pc = "getRef"
  /\ LET pr == prs[pi]
         branchName == pr.head
         body == BranchBody(pr.user, branchName)
         found == IF branchName \in Branches(repos[ri]) THEN 200 ELSE 404
     IN \E st \in {found} \cup Failing({500}) :
       IF ~RefFound(st) THEN
         /\ calls' = Append(calls, Call("getRef", repos[ri], pr.number, branchName, st))
         /\ failures' = IF st = found THEN failures ELSE failures + 1
         /\ comments' = comments
         /\ ScanClosedFrom(prs, pi + 1, CatchRef(st, branchName))
       ELSE IF ~Posts THEN
         /\ calls' = Append(calls, Call("getRef", repos[ri], pr.number, branchName, st))
         /\ UNCHANGED << failures, comments >>
         /\ ScanClosedFrom(prs, pi + 1,
                           Append(log, Line("DRY_RUN", repos[ri], pr.number, body, 0)))
       ELSE \E cs \in {200} \cup Failing({404, 500}) :
         /\ calls' = calls \o << Call("getRef", repos[ri], pr.number, branchName, st),
                                 Call("createComment", repos[ri], pr.number, "", cs) >>
         /\ failures' = IF Failed(cs) THEN failures + 1 ELSE failures
         /\ IF Failed(cs) THEN
              /\ comments' = comments
              /\ ScanClosedFrom(prs, pi + 1, CatchRef(cs, branchName))
            ELSE
              /\ comments' = Append(comments, [repo |-> repos[ri], pr |-> pr.number, body |-> body])
              /\ ScanClosedFrom(prs, pi + 1,
                   Append(log, Line("Commented branch reminder", repos[ri], pr.number, body, 0)))
  /\ UNCHANGED << config, remote, repos, isOrg, since, now, fatal, reads, passes, run, prev >>

(* --------------------------- specification ---------------------------- *)

Next ==
  \/ CheckToken
  \/ ListRepos
  \/ ListForOrg
  \/ ListForUser
  \/ ListOpenPulls
  \/ ListReviews
  \/ RemindReviewer
  \/ ListClosedPulls
  \/ CheckBranch

Spec == Init /\ [][Next]_vars

\* Every remote call returns (with a result or an error) and the event loop
\* then runs the continuation: a step that can be taken is taken.
SpecFair == Init /\ [][Next]_vars /\ WF_vars(Next)

(* ------------------- a second run over the same data ------------------ *)

\* The (pull request number, rendered message) pairs of the [DRY_RUN] lines
\* of a console, and the (number, body) pairs of the posted comments.
DryPairs(lg) ==
  LET dry == SelectSeq(lg, LAMBDA l : l.kind = "DRY_RUN")
  IN [i \in DOMAIN dry |-> << dry[i].pr, dry[i].body >>]
PostedPairs(cm) == [i \in DOMAIN cm |-> << cm[i].pr, cm[i].body >>]

\* Line 188 again: after a dry run that completed with no failed call, the
\* script is run once more with DRY_RUN unset, everything else the same (the
\* clock goes on from its last reading).  What the dry run logged, and the
\* clock readings it took, are kept in prev.
Restart ==
  /\ run = 1 /\ pc = "done" /\ DRY_RUN /\ failures = 0
  /\ run' = 2
  /\ prev' = [dry |-> DryPairs(log), reads |-> reads]
  /\ DRY_RUN' = FALSE
  /\ Ctl("boot", 0, 0, << >>, 0, {}, 0, FALSE)
  /\ repos' = << >>
  /\ isOrg' = TRUE
  /\ since' = 0
  /\ log' = << >>
  /\ calls' = << >>
  /\ reads' = << >>
  /\ passes' = << >>
  /\ UNCHANGED << GITHUB_TOKEN, OWNER, REPOS_RAW, INCLUDE_FORKS, INCLUDE_ARCHIVED,
                  remote, comments, fatal, failures, now >>

NextPair == Next \/ Restart

SpecPair == Init /\ [][NextPair]_vars


(* ============================== claims ================================ *)

\* The positions of a sequence whose element satisfies a test.
Where(seq, Test(_)) == { i \in DOMAIN seq : Test(seq[i]) }

\* All pull requests of a paged listing.
PullsOf(pages) == UNION { { pages[p][k] : k \in DOMAIN pages[p] } : p \in DOMAIN pages }

\* The reviewer reminders for reviewer login of pull request n of repo among
\* the posted comments cm (live) and the console lines lg ([DRY_RUN] lines).
ReviewerRemindersIn(cm, lg, repo, n, login) ==
  Cardinality({ i \in DOMAIN cm :
                  /\ cm[i].repo = repo /\ cm[i].pr = n
                  /\ cm[i].body.tmpl = "review" /\ cm[i].body.login = login })
  + Cardinality({ i \in DOMAIN lg :
                  /\ lg[i].kind = "DRY_RUN" /\ lg[i].repo = repo /\ lg[i].pr = n
                  /\ lg[i].body.tmpl = "review" /\ lg[i].body.login = login })
ReviewerReminders(repo, n, login) == ReviewerRemindersIn(comments, log, repo, n, login)

\* The cleanup reminders produced so far for pull request n of repo.
CleanupReminders(repo, n) ==
  Cardinality({ i \in DOMAIN comments :
                  /\ comments[i].repo = repo /\ comments[i].pr = n
                  /\ comments[i].body.tmpl = "branch" })
  + Cardinality({ i \in DOMAIN log :
                  /\ log[i].kind = "DRY_RUN" /\ log[i].repo = repo /\ log[i].pr = n
                  /\ log[i].body.tmpl = "branch" })

(* ------------------------------- C1 ----------------------------------- *)

\* The step of notifyInactiveReviewers that decides one requested reviewer:
\* the reviewer has no review, the step read the clock (now'), no call failed
\* in it.  The reminders for the pair grow by one if the hours elapsed since
\* created_at exceed REVIEW_HOURS strictly, and not at all otherwise.
C1_Step ==
  (pc = "reviewer" /\ failures' = failures) =>
    LET pr == prs[pi]
        R == pr.requested_reviewers[rvi]
        elapsed == now' - pr.created_at
    IN R \notin ReviewsOf(repos[ri], pr.number) =>
         ReviewerRemindersIn(comments', log', repos[ri], pr.number, R) =
           ReviewerReminders(repos[ri], pr.number, R)
             + (IF elapsed > REVIEW_HOURS THEN 1 ELSE 0)

\* At the end of a run in which no remote call failed, per pair (P, R) with no
\* review by R: at most one reminder; one if P was already older than the
\* threshold when the run started; none if P is not older than the threshold
\* at the last clock reading (which includes: exactly as old).
C1_Final ==
  (pc = "done" /\ failures = 0) =>
    \A i \in DOMAIN repos : \A pr \in PullsOf(OpenPages(repos[i])) :
      \A k \in DOMAIN pr.requested_reviewers :
        LET R == pr.requested_reviewers[k]
            n == ReviewerReminders(repos[i], pr.number, R)
        IN R \notin ReviewsOf(repos[i], pr.number) =>
             /\ n <= 1
             /\ (Now0 - pr.created_at > REVIEW_HOURS => n = 1)
             /\ (now - pr.created_at <= REVIEW_HOURS => n = 0)

\* C1: in a run where no remote call fails, a requested reviewer without a
\* review gets exactly one reminder (comment or [DRY_RUN] line) if and only if
\* the hours since the pull request was created are strictly greater than
\* REVIEW_HOURS; at exactly REVIEW_HOURS there is none.
C1_ReminderIffOverThreshold == [](C1_Final) /\ [][C1_Step]_vars

\* The run ended without a failure; alice (no review) on #1, created exactly
\* REVIEW_HOURS before the readings, got no reminder; carol on #3 got one.
C1_Witness ==
  /\ pc = "done" /\ failures = 0 /\ now = Now0
  /\ \E i \in DOMAIN repos :
       /\ ReviewerReminders(repos[i], 1, "alice") = 0
       /\ ReviewerReminders(repos[i], 3, "carol") = 1
       /\ Call("listReviews", repos[i], 1, "", 200) \in { calls[c] : c \in DOMAIN calls }


(* ------------------------------- C2 ----------------------------------- *)

\* C2: no reviewer reminder (comment or [DRY_RUN] line) exists for a pair
\* (P, R) when the reviews of P contain a review whose user login is R.
C2_NoReminderForReviewed ==
  \A i \in DOMAIN repos : \A pr \in PullsOf(OpenPages(repos[i])) :
    \A R \in ReviewsOf(repos[i], pr.number) :
      R # NoUser => ReviewerReminders(repos[i], pr.number, R) = 0

\* Both reviewers of #1 were decided at a reading later than created_at +
\* REVIEW_HOURS: alice (no review) was reminded, bob (reviewed) was not.
C2_Witness ==
  /\ pc = "listOpen" /\ page = 2 /\ ri \in DOMAIN repos
  /\ Len(reads) = 2 /\ reads[1] > Now0
  /\ "bob" \in ReviewsOf(repos[ri], 1)
  /\ ReviewerReminders(repos[ri], 1, "alice") = 1
  /\ ReviewerReminders(repos[ri], 1, "bob") = 0

(* ------------------------------- C3 ----------------------------------- *)

\* The numbers of the pull requests of repo that a getRef call was issued for.
CheckedNumbers(repo) ==
  { calls[c].n : c \in { d \in DOMAIN calls : calls[d].op = "getRef" /\ calls[d].repo = repo } }

\* C3: during a pass of notifyUndeletedBranches over a repository, every pull
\* request a getRef call was issued for (or is about to be) has merged_at set
\* and updated_at >= since; and every merged pull request with updated_at >=
\* since (equality included) on a page already gone through was checked.
C3_CheckedAreMergedInWindow ==
  pc \in {"listClosed", "getRef"} =>
    LET repo == repos[ri]
        pages == ClosedPages(repo)
    IN /\ \A n \in CheckedNumbers(repo) :
            \E pr \in PullsOf(pages) :
              pr.number = n /\ pr.merged_at /\ pr.updated_at >= since
       /\ (pc = "getRef" => prs[pi].merged_at /\ prs[pi].updated_at >= since)
       /\ \A p \in 1..(page - 1) : \A k \in DOMAIN PageOf(pages, p) :
            LET pr == pages[p][k]
            IN pr.merged_at /\ pr.updated_at >= since => pr.number \in CheckedNumbers(repo)

\* Page 1 has been gone through; #12, updated exactly at since, was checked.
C3_Witness ==
  /\ pc = "listClosed" /\ page = 2 /\ ri \in DOMAIN repos
  /\ \E pr \in PullsOf(ClosedPages(repos[ri])) :
       pr.updated_at = since /\ pr.number \in CheckedNumbers(repos[ri])
  /\ \E pr \in PullsOf(ClosedPages(repos[ri])) :
       ~pr.merged_at /\ pr.updated_at > since /\ pr.number \notin CheckedNumbers(repos[ri])

(* ------------------------------- C4 ----------------------------------- *)

\* C4 as stated: for every pull request the scan issued the existence check
\* for, no cleanup reminder if the head branch does not exist, exactly one if
\* it exists.
C4_OneReminderIffBranchExists ==
  \A c \in DOMAIN calls :
    calls[c].op = "getRef" =>
      /\ (calls[c].ref \notin Branches(calls[c].repo) =>
            CleanupReminders(calls[c].repo, calls[c].n) = 0)
      /\ (calls[c].ref \in Branches(calls[c].repo) =>
            CleanupReminders(calls[c].repo, calls[c].n) = 1)

\* C4 amended: no cleanup reminder when the existence check reports not found
\* or fails; when it returns, exactly one [DRY_RUN] line in dry-run mode, and
\* in live mode exactly one createComment call, which leaves exactly one
\* comment when it succeeds and none when it fails.
C4_OneReminderWhenCheckAndPostSucceed ==
  \A c \in DOMAIN calls :
    calls[c].op = "getRef" =>
      LET n == CleanupReminders(calls[c].repo, calls[c].n)
          posted == /\ c + 1 \in DOMAIN calls
                    /\ calls[c + 1].op = "createComment"
                    /\ calls[c + 1].repo = calls[c].repo
                    /\ calls[c + 1].n = calls[c].n
      IN /\ (calls[c].ref \notin Branches(calls[c].repo) => calls[c].status # 200)
         /\ (calls[c].status # 200 => n = 0 /\ ~posted)
         /\ (calls[c].status = 200 /\ DRY_RUN => n = 1 /\ ~posted)
         /\ (calls[c].status = 200 /\ ~DRY_RUN =>
               posted /\ n = (IF calls[c + 1].status = 200 THEN 1 ELSE 0))

\* One checked pull request whose branch exists has its reminder, another
\* whose branch is gone has none.
C4_Witness ==
  /\ \E c \in DOMAIN calls :
       /\ calls[c].op = "getRef" /\ calls[c].status = 200
       /\ CleanupReminders(calls[c].repo, calls[c].n) = 1
  /\ \E c \in DOMAIN calls :
       /\ calls[c].op = "getRef" /\ calls[c].status = 404
       /\ calls[c].ref \notin Branches(calls[c].repo)
       /\ CleanupReminders(calls[c].repo, calls[c].n) = 0

(* ------------------------------- C5 ----------------------------------- *)

\* C5: with the dry-run flag set no createComment call is ever made and no
\* comment exists, whatever the remote returns; each existence check that
\* returned has its [DRY_RUN] line instead.
C5_DryRunNeverPosts ==
  DRY_RUN =>
    /\ \A c \in DOMAIN calls : calls[c].op # "createComment"
    /\ comments = << >>
    /\ \A c \in DOMAIN calls :
         calls[c].op = "getRef" /\ calls[c].status = 200 =>
           CleanupReminders(calls[c].repo, calls[c].n) = 1

\* A dry run with a failed remote call ended with [DRY_RUN] lines of both
\* kinds on the console.
C5_Witness ==
  /\ DRY_RUN /\ pc = "done" /\ failures > 0
  /\ \E i \in DOMAIN log : log[i].kind = "DRY_RUN" /\ log[i].body.tmpl = "review"
  /\ \E i \in DOMAIN log : log[i].kind = "DRY_RUN" /\ log[i].body.tmpl = "branch"


(* ------------------------------- C7 ----------------------------------- *)

RECURSIVE Flatten(_)
Flatten(pages) == IF pages = << >> THEN << >> ELSE Head(pages) \o Flatten(Tail(pages))

\* The repositories the remote pages list, in page order.
Listed == Flatten(RepoPages)
RefOf(r) == [owner |-> r.owner, name |-> r.name]

\* Auto-discovery has returned its result.
Discovery_Done ==
  REPOS_RAW = << >> /\ pc \in {"listOpen", "listReviews", "reviewer", "listClosed", "getRef", "done"}

\* C7: the result of auto-discovery contains a listed repository iff (it is no
\* fork or INCLUDE_FORKS) and (it is not archived or INCLUDE_ARCHIVED), in the
\* order of the listing; no remote call and no console line of either engine
\* names a repository that was filtered out.
C7_DiscoveryFilter ==
  REPOS_RAW = << >> =>
    LET wanted(r) == (~r.fork \/ INCLUDE_FORKS) /\ (~r.archived \/ INCLUDE_ARCHIVED)
        pos(ref) == CHOOSE k \in DOMAIN Listed : RefOf(Listed[k]) = ref
    IN /\ Discovery_Done =>
            /\ \A k \in DOMAIN Listed :
                 wanted(Listed[k]) <=> (\E i \in DOMAIN repos : repos[i] = RefOf(Listed[k]))
            /\ \A i \in DOMAIN repos : \E k \in DOMAIN Listed : RefOf(Listed[k]) = repos[i]
            /\ \A i, j \in DOMAIN repos : i < j => pos(repos[i]) < pos(repos[j])
       /\ \A c \in DOMAIN calls :
            calls[c].repo # NoRepo =>
              \E k \in DOMAIN Listed : wanted(Listed[k]) /\ RefOf(Listed[k]) = calls[c].repo
       /\ \A i \in DOMAIN log :
            log[i].repo # NoRepo =>
              \E k \in DOMAIN Listed : wanted(Listed[k]) /\ RefOf(Listed[k]) = log[i].repo

\* Discovery with forks included and archived repositories excluded ended:
\* r1 and r2 were scanned in that order, r3 was not.
C7_Witness ==
  /\ REPOS_RAW = << >> /\ INCLUDE_FORKS /\ ~INCLUDE_ARCHIVED /\ pc = "done"
  /\ Len(repos) = 2 /\ repos[1].name = "r1" /\ repos[2].name = "r2"
  /\ \E c \in DOMAIN calls : calls[c].op = "listClosed" /\ calls[c].repo = repos[2]

(* ------------------------------- C8 ----------------------------------- *)

\* The scenario of C8: two pages of closed pull requests, all of page 1
\* updated within the window, all of page 2 outside it.
TwoPagesInThenOut(pages, s) ==
  /\ Len(pages) = 2
  /\ \A k \in DOMAIN pages[1] : pages[1][k].updated_at >= s
  /\ \A k \in DOMAIN pages[2] : pages[2][k].updated_at < s

\* The requests of page n of the closed pull requests of repo.
ClosedRequests(repo, n) ==
  { c \in DOMAIN calls : calls[c].op = "listClosed" /\ calls[c].repo = repo /\ calls[c].n = n }

\* Pass k of notifyUndeletedBranches has ended.
PassOver(k) == k < Len(passes) \/ pc \notin {"listClosed", "getRef"}

\* C8 as stated: in the scenario page 2 is never requested.
C8_Page2NeverRequested ==
  \A k \in DOMAIN passes :
    TwoPagesInThenOut(ClosedPages(passes[k].repo), passes[k].since) =>
      ClosedRequests(passes[k].repo, 2) = {}

\* C8 amended: in the scenario page 2 is requested (once: it is how the scan
\* learns that the page is outside the window), none of its pull requests is
\* checked for branch existence, and page 3 is never requested.
C8_Page3NeverRequested ==
  \A k \in DOMAIN passes :
    LET repo == passes[k].repo
        pages == ClosedPages(repo)
    IN TwoPagesInThenOut(pages, passes[k].since) =>
         /\ \A n \in 3..(Len(calls) + 3) : ClosedRequests(repo, n) = {}
         /\ Cardinality(ClosedRequests(repo, 2)) <= 1
         /\ \A j \in DOMAIN pages[2] : pages[2][j].number \notin CheckedNumbers(repo)
         /\ (PassOver(k) =>
               \/ ClosedRequests(repo, 2) # {}
               \/ \E c \in ClosedRequests(repo, 1) : calls[c].status # 200)

\* The run over the scenario ended: pages 1 and 2 were both returned.
C8_Witness ==
  /\ pc = "done"
  /\ \E k \in DOMAIN passes :
       /\ TwoPagesInThenOut(ClosedPages(passes[k].repo), passes[k].since)
       /\ \E c \in ClosedRequests(passes[k].repo, 2) : calls[c].status = 200
       /\ CheckedNumbers(passes[k].repo) # {}

(* ------------------------------- C9 ----------------------------------- *)

InWindowOnPage(pages, p, s) ==
  { k \in DOMAIN PageOf(pages, p) : pages[p][k].updated_at >= s }

\* C9: in a pass over the closed pull requests of a repository, no page is
\* requested after a returned page with no pull request updated at or after
\* since; and a returned page with at least one such pull request is followed
\* by the request of the next page.
C9_EarlyStopPerPage ==
  \A k \in DOMAIN passes :
    LET repo == passes[k].repo
        pages == ClosedPages(repo)
    IN \A c \in DOMAIN calls :
         (calls[c].op = "listClosed" /\ calls[c].repo = repo /\ calls[c].status = 200) =>
           IF InWindowOnPage(pages, calls[c].n, passes[k].since) = {}
           THEN \A d \in DOMAIN calls :
                  calls[d].op = "listClosed" /\ calls[d].repo = repo => calls[d].n <= calls[c].n
           ELSE /\ (PassOver(k) => ClosedRequests(repo, calls[c].n + 1) # {})
                /\ (~PassOver(k) /\ ClosedRequests(repo, calls[c].n + 1) = {} =>
                      page = (IF pc = "getRef" THEN calls[c].n ELSE calls[c].n + 1))

\* A pass ended in which page 1 held one pull request inside the window and
\* two outside it, and page 2 was requested all the same.
C9_Witness ==
  \E k \in DOMAIN passes :
    LET pages == ClosedPages(passes[k].repo) IN
    /\ PassOver(k)
    /\ Cardinality(InWindowOnPage(pages, 1, passes[k].since)) < Len(PageOf(pages, 1))
    /\ InWindowOnPage(pages, 1, passes[k].since) # {}
    /\ InWindowOnPage(pages, 2, passes[k].since) = {}
    /\ ClosedRequests(passes[k].repo, 2) # {}
    /\ ClosedRequests(passes[k].repo, 3) = {}


(* ------------------------------- C10 ---------------------------------- *)

\* Repository resolution has succeeded (line 176 was reached).
TargetLogged == \E i \in DOMAIN log : log[i].kind = "Target repositories"

\* The console lines that open the processing of a repository (line 110).
Attempts == { i \in DOMAIN log : log[i].kind = "Checking open PRs" }

\* Every resolved repository up to the current one was attempted, in order;
\* there is no top-level failure; the run ends at 'Completed run', and it is
\* never stuck before.
C10_EveryRepoAttempted ==
  TargetLogged =>
    /\ pc # "failed" /\ fatal = NoFatal
    /\ Cardinality(Attempts) = (IF pc = "done" THEN Len(repos) ELSE ri)
    /\ \A i \in Attempts : log[i].repo = repos[Cardinality({ j \in Attempts : j <= i })]
    /\ (pc = "done" => log[Len(log)].kind = "Completed run")
    /\ (pc # "done" => ENABLED Next)

ErrorLines(repo, st) ==
  { i \in DOMAIN log :
      log[i].kind = "Error processing repo" /\ log[i].repo = repo /\ log[i].status = st }

\* Call c is made by notifyUndeletedBranches inside its try block (lines
\* 151-159): getRef, or the createComment that follows it.
InCleanupTry(c) ==
  \/ calls[c].op = "getRef"
  \/ /\ calls[c].op = "createComment"
     /\ c > 1 /\ calls[c - 1].op = "getRef"
     /\ calls[c - 1].repo = calls[c].repo /\ calls[c - 1].n = calls[c].n

\* C10 as stated: every error a remote call raises while a repository is
\* processed (listing, reviews, branch check, comment post) is caught in main
\* and logged with the repository identity; every repository is attempted in
\* order and the run reaches 'Completed run' with no top-level failure.
C10_AllErrorsCaughtInMain ==
  /\ C10_EveryRepoAttempted
  /\ \A r \in { repos[i] : i \in DOMAIN repos } : \A st \in {404, 500} :
       Cardinality(ErrorLines(r, st)) =
         Cardinality({ c \in DOMAIN calls : calls[c].repo = r /\ calls[c].status = st })

\* C10 amended: the errors of the pull-request listings, of the review listing
\* and of the reviewer-reminder comment post are caught in main and logged
\* with the repository identity, and the next repository follows; the errors
\* of the branch check and of the cleanup comment post are caught inside
\* notifyUndeletedBranches (no 'Error processing repo' line) and the same
\* repository goes on with its next page request; in every case all
\* repositories are attempted in order and the run reaches 'Completed run'.
C10_RepoErrorsIsolated ==
  /\ C10_EveryRepoAttempted
  /\ \A r \in { repos[i] : i \in DOMAIN repos } : \A st \in {404, 500} :
       Cardinality(ErrorLines(r, st)) =
         Cardinality({ c \in DOMAIN calls :
                         calls[c].repo = r /\ calls[c].status = st /\ ~InCleanupTry(c) })
  /\ \A c \in DOMAIN calls :
       (calls[c].status # 200 /\ calls[c].repo # NoRepo) =>
         IF InCleanupTry(c)
         THEN \* the pass over the same repository goes on
              \/ \E d \in DOMAIN calls :
                   d > c /\ calls[d].repo = calls[c].repo /\ calls[d].op \in {"getRef", "listClosed"}
              \/ (pc \in {"getRef", "listClosed"} /\ repos[ri] = calls[c].repo)
         ELSE \* nothing more is called for the repository
              \A d \in DOMAIN calls : d > c => calls[d].repo # calls[c].repo

\* The first of two repositories failed and was logged; the second was
\* scanned and the run completed.
C10_Witness ==
  /\ pc = "done" /\ Len(repos) >= 2
  /\ \E st \in {404, 500} : ErrorLines(repos[1], st) # {}
  /\ \E c \in DOMAIN calls : calls[c].repo = repos[2] /\ calls[c].op = "listClosed"
                             /\ calls[c].status = 200


(* ------------------------------- C6 ----------------------------------- *)

\* Both runs of the pair have completed, and no remote call failed.
PairDone == run = 2 /\ pc = "done" /\ failures = 0

\* C6 as stated: the (number, message) pairs the dry run logged equal, in
\* order, the (number, body) pairs the live run posted.
C6_DryEqualsLive == PairDone => prev.dry = PostedPairs(comments)

\* C6 amended: the same, when Date.now() returned the same values at the
\* corresponding reads (lines 121 and 139) of the two runs.
C6_DryEqualsLiveSameClock ==
  (PairDone /\ prev.reads = reads) => prev.dry = PostedPairs(comments)

\* A pair of runs with equal clock readings ended; reviewer and cleanup
\* reminders were logged by the first and posted by the second.
C6_Witness ==
  /\ PairDone /\ prev.reads = reads
  /\ \E i \in DOMAIN comments : comments[i].body.tmpl = "review"
  /\ \E i \in DOMAIN comments : comments[i].body.tmpl = "branch"
  /\ prev.dry = PostedPairs(comments)

(* ------------------------------- C11 ---------------------------------- *)

\* The program is inside one of the two engines.
InEngine == pc \in {"listOpen", "listReviews", "reviewer", "listClosed", "getRef"}

\* C11: in live mode a failed createComment call does not raise past the
\* posting step: the engine that made it goes on with the same repository
\* (the call that follows, if any, is for the same repository, and until
\* then the program is still inside an engine run for that repository), for
\* the reviewer-reminder engine as for the branch-cleanup engine.
C11_CommentFailureAbsorbed ==
  \A c \in DOMAIN calls :
    (calls[c].op = "createComment" /\ calls[c].status # 200) =>
      IF c < Len(calls) THEN calls[c + 1].repo = calls[c].repo
      ELSE InEngine /\ repos[ri] = calls[c].repo

(* ------------------------------- C12 ---------------------------------- *)

\* Call c is a listForOrg call whose page was used (the mode was still
\* organization when it returned).
ServedByOrg(c) ==
  /\ calls[c].op = "listForOrg" /\ calls[c].status = 200
  /\ \A b \in 1..(c - 1) : ~(calls[b].op = "listForOrg" /\ calls[b].status = 404)

\* C12: the listing mode of auto-discovery is decided once: after a
\* listForOrg call answered not found no further listForOrg call is made, and
\* after a page was served by listForOrg no listForUser call is made.
C12_ModeDecidedOnce ==
  \A c, d \in DOMAIN calls :
    c < d =>
      /\ (calls[c].op = "listForOrg" /\ calls[c].status = 404 => calls[d].op # "listForOrg")
      /\ (ServedByOrg(c) => calls[d].op # "listForUser")

(* ------------------------------- C13 ---------------------------------- *)

\* The configuration errors of repository resolution, read off the raw
\* configuration: an entry with more than one '/', a bare name with no owner,
\* or neither a list nor an owner.
MalformedExplicit ==
  \E i \in DOMAIN REPOS_RAW :
    Len(REPOS_RAW[i]) > 2 \/ (Len(REPOS_RAW[i]) = 1 /\ OWNER = "")
BadConfig == MalformedExplicit \/ (REPOS_RAW = << >> /\ OWNER = "")

\* What a well-formed explicit list resolves to.
ExplicitRefs ==
  [i \in DOMAIN REPOS_RAW |->
     IF Len(REPOS_RAW[i]) = 1 THEN [owner |-> OWNER, name |-> REPOS_RAW[i][1]]
     ELSE [owner |-> REPOS_RAW[i][1], name |-> REPOS_RAW[i][2]]]

ListingCalls == { c \in DOMAIN calls : calls[c].op \in {"listForOrg", "listForUser"} }

Resolving == pc \in {"boot", "start"}

\* C13: once resolution has run, it has failed with a configuration error
\* exactly when the configuration is bad in one of the three ways; when it
\* has, no remote call was made and no repository was processed; a non-empty
\* well-formed explicit list is resolved as written with no listing call.
C13_ResolutionConfigErrors ==
  /\ (GITHUB_TOKEN # "" /\ ~Resolving) =>
        (BadConfig <=> (pc = "failed" /\ fatal.kind = "config"))
  /\ (pc = "failed" /\ fatal.kind = "config") =>
        /\ calls = << >> /\ comments = << >>
        /\ repos = << >> /\ Attempts = {}
  /\ (REPOS_RAW # << >> /\ ~MalformedExplicit) =>
        /\ ListingCalls = {}
        /\ (GITHUB_TOKEN # "" /\ ~Resolving => repos = ExplicitRefs)

\* Resolution failed on the second entry of a list whose first entry is well
\* formed: nothing was called, nothing was processed.
C13_Witness ==
  /\ pc = "failed" /\ fatal.kind = "config" /\ GITHUB_TOKEN # ""
  /\ Len(REPOS_RAW) = 2 /\ Len(REPOS_RAW[1]) = 2 /\ Len(REPOS_RAW[2]) = 3
  /\ calls = << >> /\ log = << >>

(* ------------------------------- C14 ---------------------------------- *)

\* C14 as stated: a run ends in a top-level failure only because of a
\* configuration error, with no remote call made; no error of a remote call
\* ends the run.
C14_TopLevelFailureOnlyForConfig ==
  pc = "failed" => (fatal.kind = "config" /\ calls = << >>)

\* Call c is a repository-listing call of auto-discovery that threw past
\* autoDiscoverRepos (lines 84 and 89).
DiscoveryThrew(c) ==
  \/ calls[c].op = "listForOrg" /\ calls[c].status \notin {200, 404}
  \/ calls[c].op = "listForUser" /\ calls[c].status # 200

\* C14 amended: a run ends in a top-level failure only before any repository
\* is processed, either because of a configuration error (no remote call was
\* made) or because a repository-listing call of auto-discovery failed
\* (listForOrg with a status other than not found, listForUser with any
\* error), and such a call always ends the run; once resolution has
\* succeeded every error of a remote call is visible in the log only and the
\* run completes.
C14_TopLevelFailureBeforeProcessing ==
  /\ pc = "failed" =>
       /\ ~TargetLogged /\ Attempts = {} /\ comments = << >>
       /\ \A c \in DOMAIN calls : c \in ListingCalls
       /\ \/ /\ fatal.kind = "config" /\ calls = << >>
             /\ (GITHUB_TOKEN = "" \/ BadConfig)
          \/ /\ fatal.kind = "remote" /\ calls # << >>
             /\ GITHUB_TOKEN # "" /\ REPOS_RAW = << >> /\ OWNER # ""
             /\ DiscoveryThrew(Len(calls))
             /\ fatal.status = calls[Len(calls)].status
  /\ \A c \in DOMAIN calls : DiscoveryThrew(c) => (pc = "failed" /\ c = Len(calls))
  /\ (TargetLogged => pc # "failed" /\ fatal = NoFatal)
  /\ (pc = "done" => fatal = NoFatal /\ log[Len(log)].kind = "Completed run")

\* Auto-discovery had collected the repositories of page 1 when the listing
\* of page 2 failed: the run ended in a top-level failure.
C14_Witness ==
  /\ pc = "failed" /\ fatal.kind = "remote" /\ fatal.status = 500
  /\ Len(calls) >= 2 /\ repos # << >>
  /\ calls[Len(calls)].n = 2

(* ------------------------------- C15 ---------------------------------- *)

ErrorRefLines(st) ==
  { i \in DOMAIN log : log[i].kind = "Error checking ref" /\ log[i].status = st }

\* Call c is a getRef call that failed with an error other than not found.
RefCheckFailed(cs, c) == cs[c].op = "getRef" /\ cs[c].status \notin {200, 404}

\* What is known of the failed checks in every state: each is logged with
\* its status and branch, no reminder and no comment post exist for its pull
\* request, and the catch of main logged nothing for it.
C15_Logged ==
  /\ \A c \in DOMAIN calls :
       RefCheckFailed(calls, c) =>
         /\ \E i \in ErrorRefLines(calls[c].status) : log[i].body.branch = calls[c].ref
         /\ CleanupReminders(calls[c].repo, calls[c].n) = 0
         /\ ~(c < Len(calls) /\ calls[c + 1].op = "createComment")
  /\ \A st \in { calls[c].status : c \in DOMAIN calls } \ {200, 404} :
       Cardinality(ErrorRefLines(st)) =
         Cardinality({ c \in DOMAIN calls : InCleanupTry(c) /\ calls[c].status = st })

\* The console lines of the catch of main (line 182).
CaughtInMain(lg) == { i \in DOMAIN lg : lg[i].kind = "Error processing repo" }

\* The step in which a check fails: the scan stays in the repository, with
\* the next merged pull request of the page inside the window if there is
\* one, with the request of the next page otherwise.
C15_Step ==
  (pc = "getRef" /\ RefCheckFailed(calls', Len(calls) + 1)) =>
    LET later == { j \in (pi + 1)..Len(prs) :
                     prs[j].merged_at /\ prs[j].updated_at >= since }
    IN /\ ri' = ri /\ prs' = (IF later = {} THEN << >> ELSE prs) /\ fatal' = fatal
       /\ CaughtInMain(log') = CaughtInMain(log)
       /\ IF later = {}
          THEN pc' = "listClosed" /\ page' = page + 1
          ELSE pc' = "getRef" /\ page' = page /\ pi' \in later
               /\ \A j \in later : pi' <= j

\* C15: a branch existence check that fails with an error other than not
\* found is logged, produces no reminder, and the scan goes on with the next
\* pull request of the page and then the next page of the same repository;
\* the error never reaches the catch of main.
C15_BranchCheckErrorSkipsOnePull == [](C15_Logged) /\ [][C15_Step]_vars

\* The check of #10 failed with 500 and was logged; #12 of the same page was
\* checked after it and page 2 was requested.
C15_Witness ==
  \E c, d, e \in DOMAIN calls :
    /\ c < d /\ d < e
    /\ RefCheckFailed(calls, c) /\ calls[c].n = 10
    /\ calls[d].op = "getRef" /\ calls[d].n = 12 /\ calls[d].repo = calls[c].repo
    /\ calls[e].op = "listClosed" /\ calls[e].n = 2 /\ calls[e].repo = calls[c].repo
    /\ ErrorRefLines(500) # {}

(* ------------------------------- C16 ---------------------------------- *)

\* C16: every failed createComment call is reported by a console line that
\* carries its status ('Error processing repo' from main, 'Error checking
\* ref' from notifyUndeletedBranches), whatever the status.
C16_EveryFailedPostLogged ==
  \A c \in DOMAIN calls :
    (calls[c].op = "createComment" /\ calls[c].status # 200) =>
      \E i \in DOMAIN log :
        /\ log[i].kind \in {"Error processing repo", "Error checking ref"}
        /\ log[i].status = calls[c].status

(* ------------------------------- C17 ---------------------------------- *)

\* The listing is sorted by updated_at descending, across its pages.
SortedDesc(pages) ==
  LET all == Flatten(pages)
  IN \A i, j \in DOMAIN all : i < j => all[i].updated_at >= all[j].updated_at

ListingFailed(repo) ==
  \E c \in DOMAIN calls :
    calls[c].op = "listClosed" /\ calls[c].repo = repo /\ calls[c].status # 200

\* C17: when the closed pull requests of a repository come sorted by
\* updated_at descending and no listing call of the pass failed, then at the
\* end of the pass every merged pull request with updated_at >= since has had
\* its branch existence check.
C17_EarlyStopComplete ==
  \A k \in DOMAIN passes :
    LET repo == passes[k].repo
        pages == ClosedPages(repo)
    IN (SortedDesc(pages) /\ PassOver(k) /\ ~ListingFailed(repo)) =>
         \A pr \in PullsOf(pages) :
           (pr.merged_at /\ pr.updated_at >= passes[k].since) =>
             pr.number \in CheckedNumbers(repo)

\* A pass over a sorted listing of three pages ended: the pull request of
\* page 2, inside the window, was checked, and page 3 was requested.
C17_Witness ==
  \E k \in DOMAIN passes :
    LET repo == passes[k].repo
        pages == ClosedPages(repo)
    IN /\ PassOver(k) /\ ~ListingFailed(repo)
       /\ Len(pages) = 3 /\ SortedDesc(pages)
       /\ pages[2][1].updated_at >= passes[k].since
       /\ pages[2][1].number \in CheckedNumbers(repo)
       /\ ClosedRequests(repo, 3) # {}

(* ------------------------------- C18 ---------------------------------- *)

\* Call c is made by notifyUndeletedBranches.
CleanupCall(c) == calls[c].op = "listClosed" \/ InCleanupTry(c)

RepoIndex(r) == CHOOSE i \in DOMAIN repos : repos[i] = r

\* The place of call c in the order of a run: 0 for the repository listing,
\* then, for the repository at index i of the resolved list, 2i - 1 for
\* notifyInactiveReviewers and 2i for notifyUndeletedBranches.
Phase(c) ==
  IF c \in ListingCalls THEN 0
  ELSE 2 * RepoIndex(calls[c].repo) - (IF CleanupCall(c) THEN 0 ELSE 1)

\* C18: in the sequence of remote calls of a run (each call is awaited, so it
\* has returned before the next is made) the repository-listing calls come
\* before all others; the calls for one repository come before the calls for
\* the repositories after it in resolver order; and within a repository the
\* calls of notifyInactiveReviewers come before those of
\* notifyUndeletedBranches: the place of the calls in that order never
\* decreases from one call to the next.
C18_CallOrder ==
  /\ \A i, j \in DOMAIN repos : repos[i] = repos[j] => i = j
  /\ \A c \in DOMAIN calls :
       IF c \in ListingCalls THEN calls[c].repo = NoRepo
       ELSE \E i \in DOMAIN repos : repos[i] = calls[c].repo
  /\ \A c \in 1..(Len(calls) - 1) : Phase(c) <= Phase(c + 1)

\* A run over two discovered repositories ended: listing calls, then both
\* engines on the first repository, then the second repository.
C18_Witness ==
  /\ pc = "done" /\ Len(repos) = 2 /\ ListingCalls # {}
  /\ \E c, d, e \in DOMAIN calls :
       /\ c < d /\ d < e
       /\ calls[c].repo = repos[1] /\ calls[c].op = "createComment" /\ ~CleanupCall(c)
       /\ calls[d].repo = repos[1] /\ calls[d].op = "getRef"
       /\ calls[e].repo = repos[2]

(* ------------------------------- C20 ---------------------------------- *)

\* Call c is made by notifyInactiveReviewers.
ReviewerCall(c) ==
  \/ calls[c].op \in {"listOpen", "listReviews"}
  \/ calls[c].op = "createComment" /\ ~InCleanupTry(c)

\* C20: when a remote call of notifyInactiveReviewers fails for a repository,
\* the error is logged by main and notifyUndeletedBranches is not run for the
\* repository: no pass is started and no call at all follows for it; the
\* reviewer reminders posted for it before the failure stay posted.
C20_SharedErrorBoundary ==
  \A c \in DOMAIN calls :
    (ReviewerCall(c) /\ calls[c].status # 200) =>
      LET repo == calls[c].repo IN
      /\ ErrorLines(repo, calls[c].status) # {}
      /\ \A k \in DOMAIN passes : passes[k].repo # repo
      /\ \A d \in DOMAIN calls :
           (d # c /\ calls[d].repo = repo) => (d < c /\ ReviewerCall(d))
      /\ Cardinality({ i \in DOMAIN comments : comments[i].repo = repo }) =
           Cardinality({ d \in DOMAIN calls :
                           /\ calls[d].repo = repo /\ calls[d].op = "createComment"
                           /\ calls[d].status = 200 })
      /\ (pc \in {"listClosed", "getRef"} => repos[ri] # repo)

\* The reminder for alice on #1 was posted, the post for carol on #3 failed:
\* the run ended with alice's comment in place and no cleanup call for the
\* repository.
C20_Witness ==
  /\ pc = "done"
  /\ \E c, d \in DOMAIN calls :
       /\ c < d /\ calls[c].repo = calls[d].repo
       /\ calls[c].op = "createComment" /\ calls[c].status = 200 /\ calls[c].n = 1
       /\ calls[d].op = "createComment" /\ calls[d].status # 200 /\ calls[d].n = 3
       /\ \E i \in DOMAIN comments :
            comments[i].repo = calls[c].repo /\ comments[i].body.login = "alice"
       /\ \A e \in DOMAIN calls : calls[e].repo = calls[c].repo => ~CleanupCall(e)

(* ------------------------------- C19 ---------------------------------- *)

\* The page numbers requested by the calls of the given operations for a
\* repository (NoRepo: the owner listing), in call order.
PagesOf(ops, repo) ==
  LET sel == SelectSeq(calls, LAMBDA c : c.op \in ops /\ c.repo = repo)
  IN [i \in DOMAIN sel |-> sel[i].n]

\* Pages 1, 2, 3, ..., each requested by one call.
Consecutive(seq) == \A i \in DOMAIN seq : seq[i] = i

\* The page call c asked for came back, and was empty.
CameBackEmpty(c) ==
  \/ /\ calls[c].op = "listOpen" /\ calls[c].status = 200
     /\ PageOf(OpenPages(calls[c].repo), calls[c].n) = << >>
  \/ /\ calls[c].op = "listClosed" /\ calls[c].status = 200
     /\ PageOf(ClosedPages(calls[c].repo), calls[c].n) = << >>
  \/ /\ ServedByOrg(c) \/ (calls[c].op = "listForUser" /\ calls[c].status = 200)
     /\ PageOf(RepoPages, calls[c].n) = << >>

\* No page of a listing is requested after one that came back empty.
NoPageAfterEmpty ==
  \A c \in DOMAIN calls :
    CameBackEmpty(c) =>
      \A d \in (c + 1)..Len(calls) :
        ~(calls[d].repo = calls[c].repo /\
          {calls[c].op, calls[d].op} \in {{"listOpen"}, {"listClosed"}, {"listForOrg"},
                                           {"listForUser"}, {"listForOrg", "listForUser"}})

PullPagesConsecutive ==
  \A i \in DOMAIN repos :
    /\ Consecutive(PagesOf({"listOpen"}, repos[i]))
    /\ Consecutive(PagesOf({"listClosed"}, repos[i]))

\* C19 as stated, its part on pages: every pagination loop (discovery, open
\* pull requests, closed pull requests) requests pages 1, 2, 3, ..., each by
\* a single remote call, and no page after one that came back empty.
C19_OneCallPerPage ==
  /\ Consecutive(PagesOf({"listForOrg", "listForUser"}, NoRepo))
  /\ PullPagesConsecutive
  /\ NoPageAfterEmpty

\* Organization-style listing has answered not found at or before call c.
NotFoundBy(c) ==
  \E b \in 1..c : calls[b].op = "listForOrg" /\ calls[b].status = 404

C19_Pages ==
  /\ Consecutive(PagesOf({"listForOrg"}, NoRepo))
  /\ \A c \in DOMAIN calls :
       calls[c].op = "listForUser" =>
         /\ c > 1 /\ calls[c - 1].op = "listForOrg" /\ calls[c - 1].n = calls[c].n
         /\ calls[c - 1].status \in {200, 404} /\ NotFoundBy(c - 1)
  /\ \A c \in DOMAIN calls :
       (calls[c].op = "listForOrg" /\ calls[c].status \in {200, 404} /\ NotFoundBy(c)) =>
         IF c < Len(calls)
         THEN calls[c + 1].op = "listForUser" /\ calls[c + 1].n = calls[c].n
         ELSE pc = "listForUser" /\ page = calls[c].n
  /\ PullPagesConsecutive
  /\ NoPageAfterEmpty

Terminated == pc \in {"done", "failed"}

\* C19 amended: the loops over open and over closed pull requests request
\* pages 1, 2, 3, ... consecutively, each by a single remote call; discovery
\* requests pages 1, 2, 3, ... consecutively, each by one listForOrg call,
\* followed by one listForUser call for the same page once listForOrg has
\* answered not found for that page or an earlier one; no loop requests a
\* page after one that came back empty; and every run eventually terminates,
\* at 'Completed run' or in a top-level failure.
C19_PagesInOrderAndTermination == [](C19_Pages) /\ <>Terminated

\* A run for a user account ended: discovery asked for three pages, each by
\* a listForOrg call and a listForUser call, and the open pull requests of the
\* first repository were asked for up to the empty page 3.
C19_Witness ==
  /\ pc = "done" /\ ~ownerIsOrg /\ failures = 0
  /\ PagesOf({"listForUser"}, NoRepo) = << 1, 2, 3 >>
  /\ PagesOf({"listForOrg"}, NoRepo) = << 1, 2, 3 >>
  /\ PagesOf({"listOpen"}, repos[1]) = << 1, 2, 3 >>

====
